---- MODULE Spec2Model ----
(***************************************************************************)
(* Model of django_fsspec's filesystems.                                   *)
(*                                                                         *)
(* TransparentFileSystem (the "Overlay", specifications Spec and           *)
(* SpecTracked, variables delta, base, last, removed, recreated, appends)  *)
(* and NestedFileSystem (the "Routing" filesystem, specification           *)
(* SpecNested, variables file_systems and last); FsspecStorage, the        *)
(* Django storage adapter (specification SpecStorage, variable             *)
(* filesystem); and the overlay's rm taken in two steps with a second      *)
(* caller observing (specification SpecRace, variables rm_pc and seen).    *)
(*                                                                         *)
(* TransparentFileSystem is a writable delta filesystem (transparent_fs)   *)
(* layered over a base filesystem (base_fs), with ".deleted" and           *)
(* ".replaced" marker entries kept in delta.  NestedFileSystem forwards    *)
(* each call to the backing filesystem its path's first segment selects.   *)
(*                                                                         *)
(* A path is a sequence of segments; a segment is a sequence of tokens     *)
(* (the characters of the name, a marker suffix being one token), so that  *)
(* path + ".deleted" and str.endswith(".deleted") are computed on the      *)
(* name and are not the identity.  The root ("" / ".") is <<>>.            *)
(*                                                                         *)
(* The two backing filesystems behave as fsspec's local filesystem with    *)
(* auto_mkdir=True, the configuration of tests/test_transparent_fs.py.     *)
(***************************************************************************)
EXTENDS Integers, Sequences, FiniteSets, Bags, TLC

VARIABLES delta, base, last, removed, recreated, appends, file_systems,
          fsid, path_storage_configs, filesystem, rm_pc, seen

vars == <<delta, base, last, removed, recreated, appends, file_systems,
          fsid, path_storage_configs, filesystem, rm_pc, seen>>

\* ---------------------------------------------------------------- bounds

\* number of append-mode writes in a run (each makes a content longer)
MaxAppends == 1

\* ------------------------------------------------------------------ paths

Root == <<>>

DELETED == ".deleted"
REPLACED == ".replaced"

Seg(n) == <<n>>

P1(a) == <<Seg(a)>>
P2(a, b) == <<Seg(a), Seg(b)>>

\* the paths callers pass to the overlay's operations
UserPaths == {P1("n"), P1("d"), P2("d", "x")}

\* the directories callers list
ListPaths == {Root, P1("d"), P1("n")}

\* contents callers write
WriteValues == {<<"w">>}

\* content callers append
AppendValues == {<<"s">>}

\* content of the files base holds at construction
BaseValue == <<"v">>

\* path + suffix  (Python: path + ".deleted")
Plus(p, sfx) == IF p = Root THEN <<Seg(sfx)>>
                ELSE [p EXCEPT ![Len(p)] = Append(@, sfx)]

\* name.endswith(suffix)
EndsWith(p, sfx) ==
    /\ Len(p) > 0
    /\ Len(p[Len(p)]) > 1
    /\ p[Len(p)][Len(p[Len(p)])] = sfx

\* name[:-len(suffix)] for a name that ends with the suffix
Strip(p) == [p EXCEPT ![Len(p)] = SubSeq(@, 1, Len(@) - 1)]

IsMarker(p) == EndsWith(p, DELETED) \/ EndsWith(p, REPLACED)

\* str(Path(path).parent); the parent of a top-level path is "." = the root
Parent(p) == IF p = Root THEN Root ELSE SubSeq(p, 1, Len(p) - 1)

\* the last segment of a path (pathname.rsplit("/", 1)[-1])
Name(p) == <<p[Len(p)]>>

Prefixes(p) == {SubSeq(p, 1, i) : i \in 1..Len(p)}

IsUnder(q, p) == Len(q) > Len(p) /\ SubSeq(q, 1, Len(p)) = p

\* ------------------------------------------------- backing filesystems

OK == "ok"

Dir == [type |-> "directory", content |-> <<>>]
File(c) == [type |-> "file", content |-> c]

EmptyFs == [q \in {} |-> Dir]

R(fs, err) == [fs |-> fs, err |-> err]

FsExists(fs, p) == p = Root \/ p \in DOMAIN fs
FsIsDir(fs, p) == p = Root \/ (p \in DOMAIN fs /\ fs[p].type = "directory")
FsIsFile(fs, p) == p \in DOMAIN fs /\ fs[p].type = "file"

FsChildren(fs, p) == {q \in DOMAIN fs : Len(q) = Len(p) + 1 /\ Parent(q) = p}

FsPut(fs, p, e) == [q \in DOMAIN fs \cup {p} |-> IF q = p THEN e ELSE fs[q]]

FsDrop(fs, gone) == [q \in DOMAIN fs \ gone |-> fs[q]]

\* os.makedirs(path, exist_ok)
FsMakedirs(fs, p, exist_ok) ==
    IF \E q \in Prefixes(p) : FsIsFile(fs, q)
    THEN R(fs, IF FsIsFile(fs, p) THEN "FileExistsError" ELSE "NotADirectoryError")
    ELSE IF FsExists(fs, p) /\ ~exist_ok THEN R(fs, "FileExistsError")
    ELSE R([q \in DOMAIN fs \cup Prefixes(p) |->
                IF q \in DOMAIN fs THEN fs[q] ELSE Dir], OK)

\* LocalFileSystem.mkdir(path, create_parents=True)
FsMkdir(fs, p) ==
    IF FsExists(fs, p) THEN R(fs, "FileExistsError")
    ELSE FsMakedirs(fs, p, TRUE)

\* os.rmdir
FsRmdir(fs, p) ==
    IF p = Root THEN R(fs, "OSError")
    ELSE IF ~FsExists(fs, p) THEN R(fs, "FileNotFoundError")
    ELSE IF ~FsIsDir(fs, p) THEN R(fs, "NotADirectoryError")
    ELSE IF FsChildren(fs, p) # {} THEN R(fs, "OSError")
    ELSE R(FsDrop(fs, {p}), OK)

\* LocalFileSystem.touch(path, truncate=True), auto_mkdir
FsTouch(fs, p) ==
    LET m == FsMakedirs(fs, Parent(p), TRUE) IN
    IF m.err # OK THEN m
    ELSE IF FsIsDir(m.fs, p) THEN R(m.fs, "IsADirectoryError")
    ELSE R(FsPut(m.fs, p, File(<<>>)), OK)

\* os.remove
FsRmFile(fs, p) ==
    IF ~FsExists(fs, p) THEN R(fs, "FileNotFoundError")
    ELSE IF FsIsDir(fs, p) THEN R(fs, "IsADirectoryError")
    ELSE R(FsDrop(fs, {p}), OK)

\* LocalFileSystem.rm(path, recursive)
FsRm(fs, p, recursive) ==
    IF FsIsDir(fs, p)
    THEN IF ~recursive \/ p = Root THEN R(fs, "ValueError")
         ELSE R(FsDrop(fs, {q \in DOMAIN fs : q = p \/ IsUnder(q, p)}), OK)
    ELSE FsRmFile(fs, p)

\* open(path, "w"), write(c), close, with auto_mkdir
FsWrite(fs, p, c) ==
    LET m == FsMakedirs(fs, Parent(p), TRUE) IN
    IF m.err # OK THEN m
    ELSE IF FsIsDir(m.fs, p) THEN R(m.fs, "IsADirectoryError")
    ELSE R(FsPut(m.fs, p, File(c)), OK)

\* open(path, "a"), write(c), close: no auto_mkdir in append mode
FsAppend(fs, p, c) ==
    IF FsIsDir(fs, p) THEN R(fs, "IsADirectoryError")
    ELSE IF ~FsIsDir(fs, Parent(p)) THEN R(fs, "FileNotFoundError")
    ELSE R(FsPut(fs, p, File(IF FsIsFile(fs, p) THEN fs[p].content \o c ELSE c)), OK)

\* open(path, "r").read(): the content, or the error raised
FsRead(fs, p) ==
    IF ~FsExists(fs, p)
    THEN [err |-> IF \E a \in Prefixes(p) \ {p} : FsIsFile(fs, a)
                  THEN "NotADirectoryError" ELSE "FileNotFoundError",
          content |-> <<>>]
    ELSE IF FsIsDir(fs, p) THEN [err |-> "IsADirectoryError", content |-> <<>>]
    ELSE [err |-> OK, content |-> fs[p].content]

\* ls(path): the names listed, or the error raised
FsLs(fs, p) ==
    IF ~FsExists(fs, p) THEN [err |-> "FileNotFoundError", names |-> {}]
    ELSE IF FsIsDir(fs, p) THEN [err |-> OK, names |-> FsChildren(fs, p)]
    ELSE [err |-> OK, names |-> {p}]

\* ------------------------------------------------- existence resolution

ExistsReturn(exists, where, modification, path) ==
    [exists |-> exists, where |-> where, modification |-> modification, path |-> path]

\* _get_path_tree: "a/b" -> ["a", "a/b"], "" -> [""]
GetPathTree(path) ==
    IF path = Root THEN <<Root>>
    ELSE [i \in 1..Len(path) |-> SubSeq(path, 1, i)]

RECURSIVE CheckLoop(_, _, _, _, _, _)
CheckLoop(dl, bs, path, i, check_base_fs, modification) ==
    LET tree == GetPathTree(path) IN
    IF i > Len(tree)
    THEN IF check_base_fs
         THEN ExistsReturn(FsExists(bs, path), 1, modification, path)
         ELSE ExistsReturn(FALSE, 0, modification, path)
    ELSE LET pt == tree[i] IN
         IF FsExists(dl, pt)
         THEN IF pt = path THEN ExistsReturn(TRUE, 0, 0, pt)
              ELSE CheckLoop(dl, bs, path, i + 1, check_base_fs, modification)
         ELSE IF FsExists(dl, Plus(pt, DELETED)) THEN ExistsReturn(FALSE, 0, 1, pt)
         ELSE IF FsExists(dl, Plus(pt, REPLACED))
              THEN CheckLoop(dl, bs, path, i + 1, FALSE, 2)
         ELSE CheckLoop(dl, bs, path, i + 1, check_base_fs, modification)

CheckExistsAndWhere(dl, bs, path) == CheckLoop(dl, bs, path, 1, TRUE, 0)

Exists(dl, bs, path) == CheckExistsAndWhere(dl, bs, path).exists

IsDir(dl, bs, path) ==
    LET out == CheckExistsAndWhere(dl, bs, path) IN
    IF ~out.exists THEN FALSE
    ELSE IF out.where = 0 THEN FsIsDir(dl, path)
    ELSE FsIsDir(bs, path)

IsFile(dl, bs, path) ==
    LET out == CheckExistsAndWhere(dl, bs, path) IN
    IF ~out.exists THEN FALSE
    ELSE IF out.where = 0 THEN FsIsFile(dl, path)
    ELSE FsIsFile(bs, path)

\* a leading filesystem that prefers base whenever base holds the path
LeadingFsPrefersBase(dl, bs, path) ==
    IF FsExists(bs, path) THEN 1 ELSE 0

\* a leading filesystem that turns to base for a path that does not exist
LeadingFsBaseWhenAbsent(dl, bs, path) ==
    LET ex == CheckExistsAndWhere(dl, bs, path) IN
    IF ex.exists /\ ex.where = 0 THEN 0 ELSE 1

\* __leading_fs: 0 = transparent_fs (delta), 1 = base_fs
LeadingFs(dl, bs, path) ==
    LET ex == CheckExistsAndWhere(dl, bs, path) IN
    IF ~ex.exists THEN 0
    ELSE IF ex.where = 0 THEN 0
    ELSE 1

ReadText(dl, bs, path) ==
    IF LeadingFs(dl, bs, path) = 0 THEN FsRead(dl, path) ELSE FsRead(bs, path)

\* ------------------------------------------------------------- listing

LsResult(err, names) == [err |-> err, names |-> names]

\* one iteration of ls's loop over delta's listing; out is the key set of
\* the dict being built
LsStep(out, item) ==
    IF EndsWith(item, DELETED)
    THEN IF Strip(item) \in out THEN LsResult(OK, out \ {Strip(item)})
         ELSE LsResult("KeyError", {})
    ELSE IF EndsWith(item, REPLACED) THEN LsResult(OK, out \cup {Strip(item)})
    ELSE LsResult(OK, out \cup {item})

\* the loop, in every order the backing listing may come in
RECURSIVE LsFold(_, _)
LsFold(out, rest) ==
    IF rest = {} THEN {LsResult(OK, out)}
    ELSE UNION {LET st == LsStep(out, item) IN
                IF st.err # OK THEN {st} ELSE LsFold(st.names, rest \ {item})
                : item \in rest}

\* ls(path, detail): the possible results; names are the names of the
\* entries of out.values()
Ls(dl, bs, path, detail) ==
    LET b == FsLs(bs, path) IN
    IF b.err # OK THEN {LsResult(b.err, {})}
    ELSE IF ~detail /\ b.names # {} THEN {LsResult("TypeError", {})}
    ELSE LET d == FsLs(dl, path) IN
         IF d.err # OK THEN {LsResult(d.err, {})}
         ELSE IF detail
              THEN IF d.names # {} THEN {LsResult("AttributeError", {})}
                   ELSE {LsResult(OK, b.names)}
         ELSE LsFold({}, d.names)

\* ---------------------------------------------------- overlay operations

St(dl, bs, err) == [delta |-> dl, base |-> bs, err |-> err]

\* variant of open(path, "w") that writes into the leading filesystem
OpenWriteThroughLeading(dl, bs, path, c) ==
    IF LeadingFs(dl, bs, path) = 0
    THEN LET w == FsWrite(dl, path, c) IN St(w.fs, bs, w.err)
    ELSE LET w == FsWrite(bs, path, c) IN St(dl, w.fs, w.err)

\* open(path, "w").write(c)
OpenWriteOp(dl, bs, path, c) ==
    LET m == FsMakedirs(dl, Parent(path), TRUE) IN
    IF m.err # OK THEN St(m.fs, bs, m.err)
    ELSE LET w == FsWrite(m.fs, path, c) IN St(w.fs, bs, w.err)

\* LocalFileSystem.cp_file with auto_mkdir
FsCpFile(fs, p1, p2) ==
    LET m == FsMakedirs(fs, Parent(p2), TRUE) IN
    IF m.err # OK THEN m
    ELSE IF FsIsFile(m.fs, p1)
         THEN IF FsIsDir(m.fs, p2) THEN R(m.fs, "IsADirectoryError")
              ELSE R(FsPut(m.fs, p2, File(m.fs[p1].content)), OK)
    ELSE IF FsIsDir(m.fs, p1) THEN FsMakedirs(m.fs, p2, TRUE)
    ELSE R(m.fs, "FileNotFoundError")

\* LocalFileSystem.mv: shutil.move(path1, path2); a destination that is a
\* directory takes the source under its own name
FsMv(fs, p1, p2) ==
    LET dst == IF FsIsDir(fs, p2) THEN Append(p2, p1[Len(p1)]) ELSE p2
        moved == {q \in DOMAIN fs : q = p1 \/ IsUnder(q, p1)}
        To(q) == dst \o SubSeq(q, Len(p1) + 1, Len(q))
    IN IF p1 = Root \/ ~FsExists(fs, p1) THEN R(fs, "FileNotFoundError")
       ELSE IF dst = p1 THEN R(fs, OK)
       ELSE IF FsIsDir(fs, p2) /\ FsExists(fs, dst) THEN R(fs, "Error")
       ELSE IF IsUnder(dst, p1) THEN R(fs, "Error")
       ELSE IF ~FsIsDir(fs, Parent(dst)) THEN R(fs, "FileNotFoundError")
       ELSE IF FsIsDir(fs, p1) /\ FsIsFile(fs, dst) THEN R(fs, "NotADirectoryError")
       ELSE R([q \in (DOMAIN fs \ moved) \cup {To(m) : m \in moved} |->
                   IF \E m \in moved : To(m) = q
                   THEN fs[CHOOSE m \in moved : To(m) = q]
                   ELSE fs[q]], OK)

\* variant of cp_file that copies inside the leading filesystem of path1
CpFileWithinLeading(dl, bs, path1, path2) ==
    IF LeadingFs(dl, bs, path1) = 0
    THEN LET r == FsCpFile(dl, path1, path2) IN St(r.fs, bs, r.err)
    ELSE LET r == FsCpFile(bs, path1, path2) IN St(dl, r.fs, r.err)

CpFileOp(dl, bs, path1, path2) ==
    IF LeadingFs(dl, bs, path1) = 0
    THEN LET r == FsCpFile(dl, path1, path2) IN St(r.fs, bs, r.err)
    ELSE LET f1 == FsRead(bs, path1) IN
         IF f1.err # OK THEN St(dl, bs, f1.err)
         ELSE LET w == FsWrite(dl, path2, f1.content) IN St(w.fs, bs, w.err)

\* open(path, "a").write(c)
OpenAppendOp(dl, bs, path, c) ==
    IF FsExists(dl, Plus(path, DELETED))
    THEN LET r == FsRm(dl, Plus(path, DELETED), FALSE) IN
         IF r.err # OK THEN St(r.fs, bs, r.err)
         ELSE LET a == FsAppend(r.fs, path, c) IN St(a.fs, bs, a.err)
    ELSE LET ex == CheckExistsAndWhere(dl, bs, path) IN
         IF ex.exists /\ ex.where = 1
         THEN LET m == FsMakedirs(dl, Parent(path), TRUE) IN
              IF m.err # OK THEN St(m.fs, bs, m.err)
              ELSE LET cp == CpFileOp(m.fs, bs, path, path) IN
                   IF cp.err # OK THEN cp
                   ELSE LET a == FsAppend(cp.delta, path, c) IN
                        St(a.fs, cp.base, a.err)
         ELSE LET a == FsAppend(dl, path, c) IN St(a.fs, bs, a.err)

\* write_text / pipe_file / pipe: written through the leading filesystem
WriteTextOp(dl, bs, path, c) ==
    IF LeadingFs(dl, bs, path) = 0
    THEN LET w == FsWrite(dl, path, c) IN St(w.fs, bs, w.err)
    ELSE LET w == FsWrite(bs, path, c) IN St(dl, w.fs, w.err)

\* an rm_file that removes through the leading filesystem
RmFileThroughLeading(dl, bs, path) ==
    IF LeadingFs(dl, bs, path) = 0
    THEN LET r == FsRmFile(dl, path) IN St(r.fs, bs, r.err)
    ELSE LET r == FsRmFile(bs, path) IN St(dl, r.fs, r.err)

RmFileOp(dl, bs, path) ==
    IF LeadingFs(dl, bs, path) = 0
    THEN LET r == FsRmFile(dl, path) IN St(r.fs, bs, r.err)
    ELSE LET t == FsTouch(dl, Plus(path, DELETED)) IN St(t.fs, bs, t.err)

\* mv
MvOp(dl, bs, path1, path2) ==
    IF LeadingFs(dl, bs, path1) = 0
    THEN LET r == FsMv(dl, path1, path2) IN St(r.fs, bs, r.err)
    ELSE LET cp == CpFileOp(dl, bs, path1, path2) IN
         IF cp.err # OK THEN cp ELSE RmFileOp(cp.delta, cp.base, path1)

RmdirOp(dl, bs, path) ==
    IF FsIsDir(bs, path)
    THEN LET m == FsMakedirs(dl, Plus(path, DELETED), TRUE) IN
         IF m.err # OK THEN St(m.fs, bs, m.err)
         ELSE IF FsIsDir(m.fs, path)
              THEN LET r == FsRmdir(m.fs, path) IN St(r.fs, bs, r.err)
         ELSE St(m.fs, bs, OK)
    ELSE St(dl, bs, "ValueError")

\* __pre_mkdir
PreMkdir(dl, bs, path, exist_ok) ==
    LET out == CheckExistsAndWhere(dl, bs, path) IN
    IF out.exists
    THEN IF exist_ok THEN St(dl, bs, OK) ELSE St(dl, bs, "FileExistsError")
    ELSE IF out.modification = 1
    THEN LET m1 == FsMakedirs(dl, out.path, TRUE) IN
         IF m1.err # OK THEN St(m1.fs, bs, m1.err)
         ELSE LET r == FsRmdir(m1.fs, Plus(path, DELETED)) IN
              IF r.err # OK THEN St(r.fs, bs, r.err)
              ELSE LET m2 == FsMakedirs(r.fs, Plus(path, REPLACED), TRUE) IN
                   St(m2.fs, bs, m2.err)
    ELSE IF out.modification = 2 THEN St(dl, bs, OK)
    ELSE IF FsIsDir(bs, Parent(path))
         THEN LET m == FsMakedirs(dl, Parent(path), FALSE) IN St(m.fs, bs, m.err)
    ELSE St(dl, bs, OK)

MkdirOp(dl, bs, path) ==
    LET pre == PreMkdir(dl, bs, path, FALSE) IN
    IF pre.err # OK THEN pre
    ELSE LET m == FsMkdir(pre.delta, path) IN St(m.fs, pre.base, m.err)

MakedirsOp(dl, bs, path, exist_ok) ==
    LET pre == PreMkdir(dl, bs, path, exist_ok) IN
    IF pre.err # OK THEN pre
    ELSE LET m == FsMakedirs(pre.delta, path, exist_ok) IN St(m.fs, pre.base, m.err)

\* touch: self.mkdirs(parent, exist_ok=True), then transparent_fs.touch(path)
TouchOp(dl, bs, path) ==
    LET m == MakedirsOp(dl, bs, Parent(path), TRUE) IN
    IF m.err # OK THEN m
    ELSE LET t == FsTouch(m.delta, path) IN St(t.fs, m.base, t.err)

\* maxdepth: <<>> is None, <<n>> is n
None == <<>>

\* the maxdepth values callers pass
Depths == {None, <<1>>, <<2>>}

\* a guard that lets every removal go on
RmGuardSkipped(dl, bs, path) == {OK}

\* rm's non-recursive guard: exists, then "subdirs, files = self.ls(path)";
\* the errors it may end in (OK: the guard lets the removal go on)
RmGuard(dl, bs, path) ==
    IF ~Exists(dl, bs, path) THEN {"ValueError"}
    ELSE {IF o.err # OK THEN o.err
          ELSE IF Cardinality(o.names) # 2 THEN "ValueError"
          ELSE IF \E e \in o.names : e # <<>> THEN "ValueError"
          ELSE OK : o \in Ls(dl, bs, path, TRUE)}

\* rm after its guards
RmBody(dl, bs, path, recursive) ==
    LET ex == CheckExistsAndWhere(dl, bs, path) IN
    IF ~ex.exists THEN St(dl, bs, "FileNotFoundError")
    ELSE LET r0 == IF FsExists(dl, Plus(path, REPLACED))
                   THEN FsRmdir(dl, Plus(path, REPLACED)) ELSE R(dl, OK) IN
         IF r0.err # OK THEN St(r0.fs, bs, r0.err)
         ELSE IF ex.where = 0
              THEN LET r1 == FsRm(r0.fs, path, recursive) IN
                   IF r1.err # OK THEN St(r1.fs, bs, r1.err)
                   ELSE IF FsExists(bs, path)
                        THEN LET t == FsTouch(r1.fs, Plus(path, DELETED)) IN
                             St(t.fs, bs, t.err)
                   ELSE St(r1.fs, bs, OK)
         ELSE LET t == FsTouch(r0.fs, Plus(path, DELETED)) IN St(t.fs, bs, t.err)

\* variant of rm that ignores maxdepth
RmAnyDepth(dl, bs, path, recursive, maxdepth) ==
    IF ~recursive
    THEN {IF g # OK THEN St(dl, bs, g) ELSE RmBody(dl, bs, path, recursive)
          : g \in RmGuard(dl, bs, path)}
    ELSE {RmBody(dl, bs, path, recursive)}

\* rm(path, recursive, maxdepth): the possible results
RmOp(dl, bs, path, recursive, maxdepth) ==
    IF maxdepth # None THEN {St(dl, bs, "NotImplementedError")}
    ELSE IF ~recursive
    THEN {IF g # OK THEN St(dl, bs, g) ELSE RmBody(dl, bs, path, recursive)
          : g \in RmGuard(dl, bs, path)}
    ELSE {RmBody(dl, bs, path, recursive)}


\* rm(path, recursive=True) in two steps, for a second caller to come between
\*
\* what a second caller sees of a path: exists(path) and a read of it
Observation(dl, bs, path) ==
    [exists |-> Exists(dl, bs, path), read |-> ReadText(dl, bs, path)]

NoObs == [exists |-> FALSE, read |-> [err |-> "none", content |-> <<>>]]

\* no rm is running
Idle == [at |-> "idle", path |-> Root, marked |-> FALSE, before |-> NoObs]

\* nothing has been observed
NoSeen ==
    [path |-> Root, value |-> NoObs, at |-> "none", rm_path |-> Root,
     marked |-> FALSE, before |-> NoObs, after |-> NoObs]

\* rm's guard lets the removal of path go on with delta the authoritative
\* layer and an entry of base under the same name: the removal from delta
\* will be followed by the write of path.deleted
RmTwoSteps(dl, bs, path, recursive) ==
    LET ex == CheckExistsAndWhere(dl, bs, path) IN
    /\ recursive \/ OK \in RmGuard(dl, bs, path)
    /\ ex.exists /\ ex.where = 0
    /\ FsExists(bs, path)

\* variant of the first step that writes the marker before it removes
RmMarkedFirst(dl, bs, path, recursive) ==
    LET t == FsTouch(dl, Plus(path, DELETED)) IN St(t.fs, bs, t.err)

\* the first step: path.replaced is removed if it is there, then
\* transparent_fs.rm(path, recursive)
RmRemoved(dl, bs, path, recursive) ==
    LET r0 == IF FsExists(dl, Plus(path, REPLACED))
              THEN FsRmdir(dl, Plus(path, REPLACED)) ELSE R(dl, OK) IN
    IF r0.err # OK THEN St(r0.fs, bs, r0.err)
    ELSE LET r1 == FsRm(r0.fs, path, recursive) IN St(r1.fs, bs, r1.err)

\* the second step: transparent_fs.touch(path + ".deleted")
RmMarked(dl, bs, path) ==
    LET t == FsTouch(dl, Plus(path, DELETED)) IN St(t.fs, bs, t.err)

\* ---------------------------------------------------------------- walk

\* the walk of one backing filesystem from "": directory -> child names
FsWalk(fs, maxdepth) ==
    LET visited == {Root} \cup
            {q \in DOMAIN fs : /\ fs[q].type = "directory"
                               /\ (maxdepth = None \/ Len(q) < maxdepth[1])}
    IN [k \in visited |->
          [dirs  |-> {Name(q) : q \in {c \in FsChildren(fs, k) : FsIsDir(fs, c)}},
           files |-> {Name(q) : q \in {c \in FsChildren(fs, k) : FsIsFile(fs, c)}}]]

\* one iteration of walk's loops over delta's dirs / files of a directory
WalkStep(out, d) ==
    IF EndsWith(d, DELETED)
    THEN IF Strip(d) \in out THEN LsResult(OK, out \ {Strip(d)})
         ELSE LsResult("KeyError", {})
    ELSE LsResult(OK, out \cup {d})

RECURSIVE WalkFold(_, _)
WalkFold(out, rest) ==
    IF rest = {} THEN {LsResult(OK, out)}
    ELSE UNION {LET st == WalkStep(out, d) IN
                IF st.err # OK THEN {st} ELSE WalkFold(st.names, rest \ {d})
                : d \in rest}

WalkResult(err, out) == [err |-> err, out |-> out]

\* walk's loop over delta's walk, for the directories in rest
RECURSIVE WalkMerge(_, _, _)
WalkMerge(out, dw, rest) ==
    IF rest = {} THEN {WalkResult(OK, out)}
    ELSE LET k == CHOOSE k \in rest : \A j \in rest : Len(k) <= Len(j) IN
         IF EndsWith(k, DELETED) \/ EndsWith(k, REPLACED)
         THEN {WalkResult("TypeError", <<>>)}
         ELSE IF k \in DOMAIN out
         THEN UNION {
                IF ds.err # OK THEN {WalkResult(ds.err, <<>>)}
                ELSE IF fs.err # OK THEN {WalkResult(fs.err, <<>>)}
                ELSE WalkMerge([out EXCEPT ![k] = [dirs |-> ds.names, files |-> fs.names]],
                               dw, rest \ {k})
                : <<ds, fs>> \in WalkFold(out[k].dirs, dw[k].dirs)
                                 \X WalkFold(out[k].files, dw[k].files)}
         ELSE WalkMerge([j \in DOMAIN out \cup {k} |-> IF j = k THEN dw[k] ELSE out[j]],
                        dw, rest \ {k})

\* walk(path, maxdepth): the possible results (path is not used by the code)
Walk(dl, bs, maxdepth) ==
    LET dw == FsWalk(dl, maxdepth) IN
    WalkMerge(FsWalk(bs, maxdepth), dw, DOMAIN dw)

\* every name a walk result holds
WalkNames(out) ==
    DOMAIN out \cup UNION {out[k].dirs \cup out[k].files : k \in DOMAIN out}

\* ----------------------------------------------------- nested filesystem
\*
\* NestedFileSystem (the "Routing" filesystem).  A routing path is a string:
\* a sequence of tokens in which "/" is a token of its own, so that
\* str.split("/", 1) and k + "/" + rest are computed on the string.  The
\* mount table file_systems maps a key (a string) to the content of the
\* backing filesystem mounted there; each mount is a rooted local
\* filesystem with auto_mkdir=True over a directory of its own, the
\* configuration of tests/test_nested_fs.py.

SLASH == "/"

\* the string ""
Empty == <<>>

\* the reserved key "default"
DEFAULT == <<"default">>

\* k + "/" + rest
Join(k, rest) == k \o <<SLASH>> \o rest

\* the position of the first "/" of s, 0 when s has none
FirstSlash(s) ==
    IF \E i \in 1..Len(s) : s[i] = SLASH
    THEN CHOOSE i \in 1..Len(s) :
             s[i] = SLASH /\ \A j \in 1..(i - 1) : s[j] # SLASH
    ELSE 0

\* str(path).split("/", 1)
Split1(s) ==
    LET i == FirstSlash(s) IN
    IF i = 0 THEN <<s>> ELSE <<SubSeq(s, 1, i - 1), SubSeq(s, i + 1, Len(s))>>

\* len(s.split("/"))
SplitLen(s) == Cardinality({i \in 1..Len(s) : s[i] = SLASH}) + 1

\* the entry of a mount a relative path string names: its segments, empty
\* segments dropped ("" and "d/" name the root and d)
RECURSIVE ToFsPath(_)
ToFsPath(s) ==
    LET parts == Split1(s)
        head == IF parts[1] = Empty THEN <<>> ELSE <<parts[1]>>
    IN IF Len(parts) = 1 THEN head ELSE head \o ToFsPath(parts[2])

\* the relative path string a mount gives an entry ("d/n")
RECURSIVE ToStr(_)
ToStr(p) ==
    IF p = Root THEN Empty
    ELSE IF Len(p) = 1 THEN p[1]
    ELSE Join(p[1], ToStr(Tail(p)))

\* what _get_filesystem returns: the mount whose filesystem it is (the key
\* under which file_systems holds the object), root_path and nested_path;
\* or the error raised
Resolved(err, mount, root_path, nested_path) ==
    [err |-> err, mount |-> mount, root_path |-> root_path,
     nested_path |-> nested_path]

\* variant of ResolveDefault that falls back on some mount when the table
\* has no "default" entry
ResolveDefaultOrAny(fss, path) ==
    Resolved(OK, IF DEFAULT \in DOMAIN fss THEN DEFAULT
                 ELSE CHOOSE k \in DOMAIN fss : TRUE, Empty, path)

\* the fall-through of _get_filesystem: self.file_systems["default"], "", path
ResolveDefault(fss, path) ==
    IF DEFAULT \in DOMAIN fss THEN Resolved(OK, DEFAULT, Empty, path)
    ELSE Resolved("KeyError", Empty, Empty, Empty)

\* variant of _get_filesystem that strips nothing
GetFilesystemUnstripped(fss, path) == ResolveDefault(fss, path)

\* _get_filesystem
GetFilesystem(fss, path) ==
    LET parts == Split1(path) IN
    IF Len(parts) = 1
    THEN IF path \in DOMAIN fss THEN Resolved(OK, path, path, Empty)
         \* root_path = None is no key
         ELSE ResolveDefault(fss, path)
    ELSE IF parts[1] \in DOMAIN fss
         THEN Resolved(OK, parts[1], parts[1], parts[2])
         ELSE ResolveDefault(fss, path)

\* one call on a backing filesystem
Call(mount, op, nested_path) ==
    [mount |-> mount, op |-> op, nested_path |-> nested_path]

NoValue == <<>>

\* the outcome of a call on the nested filesystem: the mount table after it,
\* the error raised (OK when it returned), the calls made on backing
\* filesystems, and the value returned
NR(fss, err, calls, value) ==
    [fss |-> fss, err |-> err, calls |-> calls, value |-> value]

\* raised by the nested filesystem itself
Raised(fss, err) == NR(fss, err, {}, NoValue)

\* variant of Forward in which the outcome lands in every mount
ForwardToAll(fss, g, op, r) ==
    NR([k \in DOMAIN fss |-> r.fs], r.err,
       {Call(g.mount, op, g.nested_path)}, NoValue)

\* return fs.<op>(nested_path, ...) for a call that changes the mount
Forward(fss, g, op, r) ==
    NR([fss EXCEPT ![g.mount] = r.fs], r.err,
       {Call(g.mount, op, g.nested_path)}, NoValue)

\* return fs.<op>(nested_path, ...) for a call that only reads
Answer(fss, g, op, err, value) ==
    NR(fss, err, {Call(g.mount, op, g.nested_path)}, value)

\* LocalFileSystem.rm(path, recursive, maxdepth) on a mount: maxdepth is not
\* used; the directory a mount is rooted at is not the working directory,
\* so a recursive rm of the root removes the whole tree (the root directory
\* with it; auto_mkdir makes it again on the next write)
MountRm(fs, p, recursive, maxdepth) ==
    IF FsIsDir(fs, p)
    THEN IF ~recursive THEN R(fs, "ValueError")
         ELSE IF p = Root THEN R(EmptyFs, OK)
         ELSE R(FsDrop(fs, {q \in DOMAIN fs : q = p \/ IsUnder(q, p)}), OK)
    ELSE FsRmFile(fs, p)

\* LocalFileSystem.put(lpath, rpath) of one local file named lname holding
\* content c: into rpath when rpath is a directory, else onto rpath
MountPut(fs, lname, c, p) ==
    FsWrite(fs, IF FsIsDir(fs, p) THEN Append(p, lname) ELSE p, c)

NestedMkdir(fss, path) ==
    LET g == GetFilesystem(fss, path) IN
    IF g.err # OK THEN Raised(fss, g.err)
    ELSE Forward(fss, g, "mkdir", FsMkdir(fss[g.mount], ToFsPath(g.nested_path)))

NestedMakedirs(fss, path, exist_ok) ==
    LET g == GetFilesystem(fss, path) IN
    IF g.err # OK THEN Raised(fss, g.err)
    ELSE Forward(fss, g, "makedirs",
                 FsMakedirs(fss[g.mount], ToFsPath(g.nested_path), exist_ok))

\* variant of rmdir without the test for the root path
RmdirDelegated(fss, path) ==
    LET g == GetFilesystem(fss, path) IN
    IF g.err # OK THEN Raised(fss, g.err)
    ELSE Forward(fss, g, "rmdir", FsRmdir(fss[g.mount], ToFsPath(g.nested_path)))

NestedRmdir(fss, path) ==
    IF path = Empty THEN Raised(fss, "ValueError")
    ELSE LET g == GetFilesystem(fss, path) IN
         IF g.err # OK THEN Raised(fss, g.err)
         ELSE Forward(fss, g, "rmdir",
                      FsRmdir(fss[g.mount], ToFsPath(g.nested_path)))

\* ls: the names of the entries returned, as a bag
NestedLs(fss, path, detail) ==
    IF path = Empty
    THEN LET out == IF detail THEN DOMAIN fss \ {DEFAULT} ELSE DOMAIN fss IN
         IF DEFAULT \in DOMAIN fss
         THEN LET l == FsLs(fss[DEFAULT], Root) IN
              NR(fss, l.err, {Call(DEFAULT, "ls", Empty)},
                 IF l.err = OK
                 THEN SetToBag(out) (+) SetToBag({ToStr(q) : q \in l.names})
                 ELSE NoValue)
         ELSE NR(fss, OK, {}, SetToBag(out))
    ELSE LET g == GetFilesystem(fss, path) IN
         IF g.err # OK THEN Raised(fss, g.err)
         ELSE LET l == FsLs(fss[g.mount], ToFsPath(g.nested_path)) IN
              IF l.err # OK THEN Answer(fss, g, "ls", l.err, NoValue)
              \* fs.root_path: the backing filesystem has no such attribute
              ELSE IF l.names # {} THEN Answer(fss, g, "ls", "AttributeError", NoValue)
              ELSE Answer(fss, g, "ls", OK, EmptyBag)

NestedExists(fss, path) ==
    LET g == GetFilesystem(fss, path) IN
    IF g.err # OK THEN Raised(fss, g.err)
    ELSE Answer(fss, g, "exists", OK, FsExists(fss[g.mount], ToFsPath(g.nested_path)))

NestedLexists(fss, path) ==
    LET g == GetFilesystem(fss, path) IN
    IF g.err # OK THEN Raised(fss, g.err)
    ELSE Answer(fss, g, "lexists", OK, FsExists(fss[g.mount], ToFsPath(g.nested_path)))

NestedIsdir(fss, path) ==
    LET g == GetFilesystem(fss, path) IN
    IF g.err # OK THEN Raised(fss, g.err)
    ELSE Answer(fss, g, "isdir", OK, FsIsDir(fss[g.mount], ToFsPath(g.nested_path)))

NestedIsfile(fss, path) ==
    LET g == GetFilesystem(fss, path) IN
    IF g.err # OK THEN Raised(fss, g.err)
    ELSE Answer(fss, g, "isfile", OK, FsIsFile(fss[g.mount], ToFsPath(g.nested_path)))

NestedReadText(fss, path) ==
    LET g == GetFilesystem(fss, path) IN
    IF g.err # OK THEN Raised(fss, g.err)
    ELSE LET r == FsRead(fss[g.mount], ToFsPath(g.nested_path)) IN
         Answer(fss, g, "read_text", r.err, r.content)

NestedWriteText(fss, path, c) ==
    LET g == GetFilesystem(fss, path) IN
    IF g.err # OK THEN Raised(fss, g.err)
    ELSE Forward(fss, g, "write_text",
                 FsWrite(fss[g.mount], ToFsPath(g.nested_path), c))

NestedPut(fss, lname, c, rpath) ==
    LET g == GetFilesystem(fss, rpath) IN
    IF g.err # OK THEN Raised(fss, g.err)
    ELSE Forward(fss, g, "put",
                 MountPut(fss[g.mount], lname, c, ToFsPath(g.nested_path)))

NestedRmFile(fss, path) ==
    LET g == GetFilesystem(fss, path) IN
    IF g.err # OK THEN Raised(fss, g.err)
    ELSE Forward(fss, g, "rm_file",
                 FsRmFile(fss[g.mount], ToFsPath(g.nested_path)))

\* rm's maxdepth as handed to the backing filesystem:
\* maxdepth -= len(root_path.split("/")) when maxdepth is given and root_path
\* is not empty
RmDepth(g, maxdepth) ==
    IF maxdepth # None /\ g.root_path # Empty
    THEN <<maxdepth[1] - SplitLen(g.root_path)>>
    ELSE maxdepth

NestedRm(fss, path, recursive, maxdepth) ==
    LET g == GetFilesystem(fss, path) IN
    IF g.err # OK THEN Raised(fss, g.err)
    ELSE Forward(fss, g, "rm",
                 MountRm(fss[g.mount], ToFsPath(g.nested_path), recursive,
                         RmDepth(g, maxdepth)))

\* variant of open that hands the whole path to the mount
OpenWriteWholePath(fss, path, c) ==
    LET g == GetFilesystem(fss, path) IN
    IF g.err # OK THEN Raised(fss, g.err)
    ELSE Forward(fss, g, "open", FsWrite(fss[g.mount], ToFsPath(path), c))

\* open(path, "w"), write(c), close
NestedOpenWrite(fss, path, c) ==
    LET g == GetFilesystem(fss, path) IN
    IF g.err # OK THEN Raised(fss, g.err)
    ELSE Forward(fss, g, "open",
                 FsWrite(fss[g.mount], ToFsPath(g.nested_path), c))

\* open(path).read()
NestedOpenRead(fss, path) ==
    LET g == GetFilesystem(fss, path) IN
    IF g.err # OK THEN Raised(fss, g.err)
    ELSE LET r == FsRead(fss[g.mount], ToFsPath(g.nested_path)) IN
         Answer(fss, g, "open", r.err, r.content)

\* cp_file: "fs1, nested_path1 = self._get_filesystem(path1)" unpacks the
\* three values _get_filesystem returns into two names, which raises
\* ValueError; nothing after it is reached
NestedCpFile(fss, path1, path2) ==
    LET g1 == GetFilesystem(fss, path1) IN
    IF g1.err # OK THEN Raised(fss, g1.err)
    ELSE Raised(fss, "ValueError")

\* mv: the same unpacking as in cp_file
NestedMv(fss, path1, path2) ==
    LET g1 == GetFilesystem(fss, path1) IN
    IF g1.err # OK THEN Raised(fss, g1.err)
    ELSE Raised(fss, "ValueError")

NestedTouch(fss, path) ==
    LET g == GetFilesystem(fss, path) IN
    IF g.err # OK THEN Raised(fss, g.err)
    ELSE Forward(fss, g, "touch", FsTouch(fss[g.mount], ToFsPath(g.nested_path)))


\* ---------------------------------------- nested filesystem, construction

\* the storage configuration of a mount rooted at the directory root
\* (tests/test_nested_fs.py), without and with nested_permissions
MountConfig(root) ==
    [protocol |-> "local", auto_mkdir |-> TRUE, relative_to_path |-> root]

MountConfigWithPermissions(root) ==
    [protocol |-> "local", auto_mkdir |-> TRUE, relative_to_path |-> root,
     nested_permissions |-> [allow_write |-> FALSE]]

\* the order in which the configuration mapping holds its keys
ConfigKeyOrder == << <<"a">>, <<"b">>, DEFAULT >>

\* the configuration mappings callers construct the nested filesystem from:
\* mounts a (with nested_permissions) and b, with and without "default"
CallerConfigs ==
    { [k \in {<<"a">>, <<"b">>, DEFAULT} |->
          IF k = <<"a">> THEN MountConfigWithPermissions("root_fs1")
          ELSE IF k = <<"b">> THEN MountConfig("root_fs2")
          ELSE MountConfig("root_fs3")],
      [k \in {<<"a">>, <<"b">>} |->
          IF k = <<"a">> THEN MountConfigWithPermissions("root_fs1")
          ELSE MountConfig("root_fs2")] }

\* config.pop("nested_permissions", {}): the mapping left
Popped(config) ==
    [f \in DOMAIN config \ {"nested_permissions"} |-> config[f]]

\* json.dumps(path_storage_configs, default=str): the keys in the mapping's
\* order, each followed by a mark of the fields of its configuration
JsonDumps(cfg) ==
    LET keys == SelectSeq(ConfigKeyOrder, LAMBDA k : k \in DOMAIN cfg)
        Item(k) == <<k[1], cfg[k].relative_to_path,
                     IF "nested_permissions" \in DOMAIN cfg[k]
                     THEN "nested_permissions" ELSE "}">>
    IN [i \in 1..Len(keys) |-> Item(keys[i])]

\* the tokens of a serialization, numbered
Alphabet ==
    <<"a", "b", "default", "root_fs1", "root_fs2", "root_fs3",
      "nested_permissions", "}">>

Code(t) == CHOOSE i \in 1..Len(Alphabet) : Alphabet[i] = t

\* hash values are HashWidth bits wide
HashWidth == 16

\* hash(str): a polynomial over the tokens, of HashWidth bits
RECURSIVE HashFrom(_, _)
HashFrom(s, h) ==
    IF s = <<>> THEN h
    ELSE LET item == Head(s)
             m == 2 ^ HashWidth
             s1 == (h * 31 + Code(item[1])) % m
             s2 == (s1 * 31 + Code(item[2])) % m
         IN HashFrom(Tail(s), (s2 * 31 + Code(item[3])) % m)

Hash(s) == HashFrom(s, 7)

\* what __init__ leaves: the mount table, the fingerprint, and the caller's
\* mapping as it is after the call
Constructed(fss, id, cfg) ==
    [file_systems |-> fss, fsid |-> id, path_storage_configs |-> cfg]

\* variant of __init__ that pops nested_permissions from the caller's
\* mapping itself
InitPopping(cfg) ==
    LET left == [k \in DOMAIN cfg |-> Popped(cfg[k])] IN
    Constructed([k \in DOMAIN cfg |-> EmptyFs], Hash(JsonDumps(left)), left)

\* __init__: pops nested_permissions from a copy of each configuration,
\* binds a filesystem (empty, as the tests' directories are) to each key and
\* computes fsid from the mapping
NestedInit(cfg) ==
    LET storage_config == [k \in DOMAIN cfg |-> Popped(cfg[k])] IN
    Constructed([k \in DOMAIN storage_config |-> EmptyFs], Hash(JsonDumps(cfg)), cfg)

\* no nested filesystem is constructed
NoConfigs == [k \in {} |-> MountConfig("")]

\* ------------------------------------------------------- state machine

MkFs(dirs, files) ==
    [q \in dirs \cup files |-> IF q \in dirs THEN Dir ELSE File(BaseValue)]

\* what base holds when the overlay is constructed
BaseInits ==
    { EmptyFs,
      MkFs({}, {P1("n")}),
      MkFs({P1("d")}, {}),
      MkFs({P1("d")}, {P2("d", "x")}),
      MkFs({P1("d")}, {P2("d", "x"), P1("n")}) }

NoPath == Root

\* no nested filesystem is constructed
NoMounts == [k \in {} |-> EmptyFs]

Init ==
    /\ delta = EmptyFs
    /\ base \in BaseInits
    /\ last = [op |-> "init", path |-> NoPath, ok |-> TRUE]
    /\ removed = {}
    /\ recreated = {}
    /\ appends = 0
    /\ file_systems = NoMounts
    /\ fsid = 0
    /\ path_storage_configs = NoConfigs
    /\ filesystem = EmptyFs
    /\ rm_pc = Idle
    /\ seen = NoSeen

\* an operation with result r has run: last records the call when it returned
\* (and only that it raised when it raised).  With track, removed collects
\* the paths rm_file has removed while base was the authoritative layer, and
\* recreated those of them written again through open(p, "w")
Did(op, p, r, track) ==
    /\ delta' = r.delta
    /\ base' = r.base
    /\ last' = IF r.err = OK THEN [op |-> op, path |-> p, ok |-> TRUE]
               ELSE [op |-> "failed", path |-> NoPath, ok |-> FALSE]
    /\ removed' = IF /\ track
                     /\ op = "rm_file"
                     /\ r.err = OK
                     /\ LeadingFs(delta, base, p) = 1
                  THEN removed \cup {p} ELSE removed
    /\ recreated' = IF track /\ op = "open_w" /\ r.err = OK /\ p \in removed
                    THEN recreated \cup {p} ELSE recreated
    /\ UNCHANGED <<file_systems, fsid, path_storage_configs, filesystem, rm_pc, seen>>

OpenWrite(U, track) ==
    \E p \in U, c \in WriteValues :
        /\ Did("open_w", p, OpenWriteOp(delta, base, p, c), track)
        /\ UNCHANGED appends

OpenAppend(U, track) ==
    \E p \in U, c \in AppendValues :
        /\ appends < MaxAppends
        /\ Did("open_a", p, OpenAppendOp(delta, base, p, c), track)
        /\ appends' = appends + 1

WriteText(U, track) ==
    \E p \in U, c \in WriteValues :
        /\ Did("write_text", p, WriteTextOp(delta, base, p, c), track)
        /\ UNCHANGED appends

RmFile(U, track) ==
    \E p \in U :
        /\ Did("rm_file", p, RmFileOp(delta, base, p), track)
        /\ UNCHANGED appends

Rm(U, track) ==
    \E p \in U, recursive \in BOOLEAN, maxdepth \in Depths :
        \E r \in RmOp(delta, base, p, recursive, maxdepth) :
            /\ Did(IF recursive THEN "rm_r" ELSE "rm", p, r, track)
            /\ UNCHANGED appends

Rmdir(U, track) ==
    \E p \in U :
        /\ Did("rmdir", p, RmdirOp(delta, base, p), track)
        /\ UNCHANGED appends

Mkdir(U, track) ==
    \E p \in U :
        /\ Did("mkdir", p, MkdirOp(delta, base, p), track)
        /\ UNCHANGED appends

Makedirs(U, track) ==
    \E p \in U, exist_ok \in BOOLEAN :
        /\ Did(IF exist_ok THEN "makedirs_ok" ELSE "makedirs", p,
               MakedirsOp(delta, base, p, exist_ok), track)
        /\ UNCHANGED appends

Next ==
    \/ OpenWrite(UserPaths, FALSE)
    \/ OpenAppend(UserPaths, FALSE)
    \/ WriteText(UserPaths, FALSE)
    \/ RmFile(UserPaths, FALSE)
    \/ Rm(UserPaths, FALSE)
    \/ Rmdir(UserPaths, FALSE)
    \/ Mkdir(UserPaths, FALSE)
    \/ Makedirs(UserPaths, FALSE)

Spec == Init /\ [][Next]_vars

\* the same operations, with the removals and re-creations kept track of
NextTracked ==
    \/ OpenWrite(UserPaths, TRUE)
    \/ OpenAppend(UserPaths, TRUE)
    \/ WriteText(UserPaths, TRUE)
    \/ RmFile(UserPaths, TRUE)
    \/ Rm(UserPaths, TRUE)
    \/ Rmdir(UserPaths, TRUE)
    \/ Mkdir(UserPaths, TRUE)
    \/ Makedirs(UserPaths, TRUE)

SpecTracked == Init /\ [][NextTracked]_vars

\* ---------------------------------- rm with a second caller on the overlay
\*
\* One caller removes, a second one observes at any moment; paths are written
\* while no rm is running.

OpenWriteRace ==
    /\ rm_pc.at = "idle"
    /\ OpenWrite(UserPaths, FALSE)

\* rm runs up to the removal from delta; the marker is still to be written
RmBegin ==
    \E p \in UserPaths, recursive \in BOOLEAN :
        /\ rm_pc.at = "idle"
        /\ RmTwoSteps(delta, base, p, recursive)
        /\ LET r == RmRemoved(delta, base, p, recursive) IN
           /\ r.err = OK
           /\ delta' = r.delta
        /\ rm_pc' = [at |-> "removed", path |-> p,
                     marked |-> FsExists(delta, Plus(p, DELETED)),
                     before |-> Observation(delta, base, p)]
        /\ UNCHANGED <<base, last, removed, recreated, appends, file_systems,
                       fsid, path_storage_configs, filesystem, seen>>

\* rm writes the marker and returns
RmEnd ==
    /\ rm_pc.at = "removed"
    /\ LET r == RmMarked(delta, base, rm_pc.path) IN
       /\ delta' = r.delta
       /\ last' = [op |-> "rm_r", path |-> rm_pc.path, ok |-> r.err = OK]
    /\ rm_pc' = Idle
    /\ UNCHANGED <<base, removed, recreated, appends, file_systems, fsid,
                   path_storage_configs, filesystem, seen>>

\* every other rm makes at most one change, or raises: one step
RmWhole ==
    \E p \in UserPaths, recursive \in BOOLEAN :
        /\ rm_pc.at = "idle"
        /\ ~(/\ RmTwoSteps(delta, base, p, recursive)
             /\ RmRemoved(delta, base, p, recursive).err = OK)
        /\ \E r \in RmOp(delta, base, p, recursive, None) :
               Did(IF recursive THEN "rm_r" ELSE "rm", p, r, FALSE)
        /\ UNCHANGED appends

\* the second caller: exists(p) and a read of p, at any moment
Observe ==
    \E p \in UserPaths :
        /\ seen' = [path |-> p,
                    value |-> Observation(delta, base, p),
                    at |-> rm_pc.at,
                    rm_path |-> rm_pc.path,
                    marked |-> rm_pc.marked,
                    before |-> rm_pc.before,
                    after |-> IF rm_pc.at = "removed"
                              THEN Observation(
                                       RmMarked(delta, base, rm_pc.path).delta,
                                       base, p)
                              ELSE NoObs]
        /\ UNCHANGED <<delta, base, last, removed, recreated, appends,
                       file_systems, fsid, path_storage_configs, filesystem,
                       rm_pc>>

NextRace ==
    \/ OpenWriteRace
    \/ RmBegin
    \/ RmEnd
    \/ RmWhole
    \/ Observe

SpecRace == Init /\ [][NextRace]_vars


\* ------------------------------------------- nested filesystem, as a machine

Str1(a) == <<a>>
Str2(a, b) == Join(Str1(a), Str1(b))
Str3(a, b, c) == Join(Str1(a), Str2(b, c))

\* the paths callers pass to the nested filesystem's operations
NestedPaths ==
    { Empty, Str1("a"), Str2("a", "n"), Str1("n"), Str2("q", "n"),
      Join(DEFAULT, Str1("n")) }

\* the paths the nested filesystem is asked about
ProbePaths ==
    NestedPaths \cup
        { Str3("a", "d", "n"), Join(Str1("a"), Empty), Str1("b"), Str2("b", "n"),
          Str1("q"), Str3("q", "n", "n"), DEFAULT }

\* the maxdepth values callers pass to the nested filesystem's rm
NestedDepths == {None, <<2>>}

\* the mount keys of the configurations, "default" apart
MountKeys == {Str1("a"), Str1("b")}

\* the name of the local file put uploads
LocalName == Seg("n")

\* __init__: one empty backing filesystem per key of path_storage_configs,
\* with or without a "default" entry
MountTables == {NestedInit(cfg).file_systems : cfg \in CallerConfigs}

InitNested ==
    /\ \E cfg \in CallerConfigs :
           LET made == NestedInit(cfg) IN
           /\ file_systems = made.file_systems
           /\ fsid = made.fsid
           /\ path_storage_configs = made.path_storage_configs
    /\ filesystem = EmptyFs
    /\ last = [op |-> "init", path |-> Empty, ok |-> TRUE]
    /\ delta = EmptyFs
    /\ base = EmptyFs
    /\ removed = {}
    /\ recreated = {}
    /\ appends = 0
    /\ rm_pc = Idle
    /\ seen = NoSeen

\* the variables no call on the nested filesystem reads
overlay == <<delta, base, removed, recreated, appends, filesystem, rm_pc, seen>>

\* a call on the nested filesystem with outcome r has run
DidNested(op, p, r) ==
    /\ file_systems' = r.fss
    /\ last' = [op |-> op, path |-> p, ok |-> r.err = OK]
    /\ UNCHANGED <<fsid, path_storage_configs>>

OpenWriteNested ==
    \E p \in NestedPaths, c \in WriteValues :
        /\ DidNested("open_w", p, NestedOpenWrite(file_systems, p, c))
        /\ UNCHANGED overlay

WriteTextNested ==
    \E p \in NestedPaths, c \in WriteValues :
        /\ DidNested("write_text", p, NestedWriteText(file_systems, p, c))
        /\ UNCHANGED overlay

PutNested ==
    \E p \in NestedPaths, c \in WriteValues :
        /\ DidNested("put", p, NestedPut(file_systems, LocalName, c, p))
        /\ UNCHANGED overlay

TouchNested ==
    \E p \in NestedPaths :
        /\ DidNested("touch", p, NestedTouch(file_systems, p))
        /\ UNCHANGED overlay

MkdirNested ==
    \E p \in NestedPaths :
        /\ DidNested("mkdir", p, NestedMkdir(file_systems, p))
        /\ UNCHANGED overlay

MakedirsNested ==
    \E p \in NestedPaths, exist_ok \in BOOLEAN :
        /\ DidNested(IF exist_ok THEN "makedirs_ok" ELSE "makedirs", p,
                     NestedMakedirs(file_systems, p, exist_ok))
        /\ UNCHANGED overlay

RmdirNested ==
    \E p \in NestedPaths :
        /\ DidNested("rmdir", p, NestedRmdir(file_systems, p))
        /\ UNCHANGED overlay

RmFileNested ==
    \E p \in NestedPaths :
        /\ DidNested("rm_file", p, NestedRmFile(file_systems, p))
        /\ UNCHANGED overlay

RmNested ==
    \E p \in NestedPaths, recursive \in BOOLEAN, maxdepth \in NestedDepths :
        /\ DidNested(IF recursive THEN "rm_r" ELSE "rm", p,
                     NestedRm(file_systems, p, recursive, maxdepth))
        /\ UNCHANGED overlay

CpFileNested ==
    \E p1 \in NestedPaths, p2 \in NestedPaths :
        /\ DidNested("cp_file", p1, NestedCpFile(file_systems, p1, p2))
        /\ UNCHANGED overlay

MvNested ==
    \E p1 \in NestedPaths, p2 \in NestedPaths :
        /\ DidNested("mv", p1, NestedMv(file_systems, p1, p2))
        /\ UNCHANGED overlay

\* the operations on one path that change a backing filesystem
SinglePathOps ==
    { "open_w", "write_text", "put", "touch", "mkdir", "makedirs", "rmdir",
      "rm_file", "rm" }

\* the operations on one path that only read
QueryOps == {"exists", "lexists", "isdir", "isfile", "read_text", "open_r", "ls"}

\* the outcomes of the calls of one operation on one path, over the
\* arguments callers pass
NestedCalls(fss, op, path) ==
    CASE op = "open_w" -> {NestedOpenWrite(fss, path, c) : c \in WriteValues}
      [] op = "write_text" -> {NestedWriteText(fss, path, c) : c \in WriteValues}
      [] op = "put" -> {NestedPut(fss, LocalName, c, path) : c \in WriteValues}
      [] op = "touch" -> {NestedTouch(fss, path)}
      [] op = "mkdir" -> {NestedMkdir(fss, path)}
      [] op = "makedirs" -> {NestedMakedirs(fss, path, e) : e \in BOOLEAN}
      [] op = "rmdir" -> {NestedRmdir(fss, path)}
      [] op = "rm_file" -> {NestedRmFile(fss, path)}
      [] op = "rm" -> {NestedRm(fss, path, r, m) : r \in BOOLEAN, m \in NestedDepths}
      [] op = "exists" -> {NestedExists(fss, path)}
      [] op = "lexists" -> {NestedLexists(fss, path)}
      [] op = "isdir" -> {NestedIsdir(fss, path)}
      [] op = "isfile" -> {NestedIsfile(fss, path)}
      [] op = "read_text" -> {NestedReadText(fss, path)}
      [] op = "open_r" -> {NestedOpenRead(fss, path)}
      [] op = "ls" -> {NestedLs(fss, path, d) : d \in BOOLEAN}

NextNested ==
    \/ OpenWriteNested
    \/ WriteTextNested
    \/ PutNested
    \/ TouchNested
    \/ MkdirNested
    \/ MakedirsNested
    \/ RmdirNested
    \/ RmFileNested
    \/ RmNested
    \/ CpFileNested
    \/ MvNested

SpecNested == InitNested /\ [][NextNested]_vars

\* -------------------------------------------------------- storage adapter
\*
\* FsspecStorage over one rooted local filesystem (tests/
\* test_fsspec_storage.py).  A name is the token sequence of a file name, an
\* extension (".txt") being one token; the file of a name is the top-level
\* entry <<name>> of the filesystem.

\* the extensions of the names
Extensions == {".txt"}

\* the names callers save under
StorageNames == { <<"t", ".txt">>, <<"u">> }

\* the contents callers save
StorageValues == { <<"c1">>, <<"c2">> }

\* the strings get_random_string draws from
RandomStrings == {"r1", "r2"}

\* "".join(pathlib.PurePath(file_name).suffixes)
RECURSIVE FileExt(_)
FileExt(name) ==
    IF Len(name) > 1 /\ name[Len(name)] \in Extensions
    THEN FileExt(SubSeq(name, 1, Len(name) - 1)) \o <<name[Len(name)]>>
    ELSE <<>>

\* file_name.removesuffix(file_ext)
FileRoot(name) == SubSeq(name, 1, Len(name) - Len(FileExt(name)))

\* get_alternative_name with the random string r: "%s_%s%s"
GetAlternativeName(file_root, r, file_ext) == file_root \o <<"_", r>> \o file_ext

\* FsspecStorage.exists
StorageExists(fs, name) == FsExists(fs, <<name>>)

\* variant of get_available_name that keeps the name asked for
GetGivenName(fs, name) == {name}

\* Storage.get_available_name: the name itself while nothing exists under it,
\* else alternative names are drawn until one is free; the names it can
\* return (none when every alternative exists: the loop goes on)
GetAvailableName(fs, name) ==
    IF ~StorageExists(fs, name) THEN {name}
    ELSE { alt \in { GetAlternativeName(FileRoot(name), r, FileExt(name)) :
                         r \in RandomStrings } : ~StorageExists(fs, alt) }

\* the allow_overwrite setting, left at its default
allow_overwrite == TRUE

\* what a call on the storage leaves and returns
SR(fs, err, name) == [fs |-> fs, err |-> err, name |-> name]

\* FsspecStorage.delete
StorageDelete(fs, name) ==
    LET r == FsRm(fs, <<name>>, FALSE) IN SR(r.fs, r.err, name)

\* FsspecStorage._save
UnderSave(fs, name, content) ==
    LET d == IF allow_overwrite /\ StorageExists(fs, name)
             THEN StorageDelete(fs, name) ELSE SR(fs, OK, name)
    IN IF d.err # OK THEN d
       ELSE LET w == FsWrite(d.fs, <<name>>, content) IN SR(w.fs, w.err, name)

\* Storage.save: _save under the available name; the outcomes
StorageSave(fs, name, content) ==
    { UnderSave(fs, n, content) : n \in GetAvailableName(fs, name) }

\* storage.open(name, "wb"), write(content), close
StorageOpenWrite(fs, name, content) ==
    LET w == FsWrite(fs, <<name>>, content) IN SR(w.fs, w.err, name)

InitStorage ==
    /\ filesystem = EmptyFs
    /\ last = [op |-> "init", path |-> <<>>, asked |-> <<>>, ok |-> TRUE]
    /\ delta = EmptyFs
    /\ base = EmptyFs
    /\ removed = {}
    /\ recreated = {}
    /\ appends = 0
    /\ file_systems = NoMounts
    /\ fsid = 0
    /\ path_storage_configs = NoConfigs
    /\ rm_pc = Idle
    /\ seen = NoSeen

\* the variables no call on the storage reads
others ==
    <<delta, base, removed, recreated, appends, file_systems, fsid,
      path_storage_configs, rm_pc, seen>>

\* a call on the storage, asked for name, has run with outcome r
DidStorage(op, name, r) ==
    /\ filesystem' = r.fs
    /\ last' = [op |-> op, path |-> r.name, asked |-> name, ok |-> r.err = OK]

Save ==
    \E name \in StorageNames, content \in StorageValues :
        \E r \in StorageSave(filesystem, name, content) :
            /\ DidStorage("save", name, r)
            /\ UNCHANGED others

Delete ==
    \E name \in StorageNames :
        /\ DidStorage("delete", name, StorageDelete(filesystem, name))
        /\ UNCHANGED others

OpenWriteStorage ==
    \E name \in StorageNames, content \in StorageValues :
        /\ DidStorage("open_w", name, StorageOpenWrite(filesystem, name, content))
        /\ UNCHANGED others

NextStorage ==
    \/ Save
    \/ Delete
    \/ OpenWriteStorage

SpecStorage == InitStorage /\ [][NextStorage]_vars

\* ---------------------------------------------------------------- claims

HasMarker(dl, p, sfx) == \E a \in Prefixes(p) : FsExists(dl, Plus(a, sfx))

\* C1: after content c is written to p through open(p, "w"), exists(p) is
\* True and read_text(p) returns exactly c, in every reachable state of delta
\* and base, markers on p or its ancestors included.
C1_ReadAfterWrite ==
    \A p \in UserPaths, c \in WriteValues :
        LET r == OpenWriteOp(delta, base, p, c) IN
        r.err = OK =>
            /\ Exists(r.delta, r.base, p)
            /\ ReadText(r.delta, r.base, p) = [err |-> OK, content |-> c]

\* a write through open(p, "w") has returned for a path that carries a
\* ".deleted" marker and lies under an ancestor with a ".replaced" marker
C1_Witness ==
    /\ last.op = "open_w"
    /\ last.path = P2("d", "x")
    /\ FsExists(delta, Plus(last.path, DELETED))
    /\ FsExists(delta, Plus(P1("d"), REPLACED))
    /\ FsExists(base, last.path)
    /\ Exists(delta, base, last.path)
    /\ ReadText(delta, base, last.path).content \in WriteValues

\* C2: after rm_file(p) has returned for a path that existed in the overlay
\* view, exists(p) is False (rm_file returns only for such a path).
C2_RmFileRemoves ==
    (last.op = "rm_file" /\ last.ok) => ~Exists(delta, base, last.path)

\* C3: rm_file, rm (recursive or not, any maxdepth) and rmdir leave base as
\* it was, whether they return or raise.
C3_RemovalKeepsBase ==
    \A p \in UserPaths :
        /\ RmFileOp(delta, base, p).base = base
        /\ RmdirOp(delta, base, p).base = base
        /\ \A recursive \in BOOLEAN, maxdepth \in Depths :
              \A r \in RmOp(delta, base, p, recursive, maxdepth) : r.base = base

\* a removal has returned for a path base holds: the overlay no longer shows
\* the path and base still has it
C3_Witness ==
    /\ last.op \in {"rm_file", "rm_r", "rmdir"}
    /\ FsExists(base, last.path)
    /\ ~Exists(delta, base, last.path)


\* C4: for a file p only in base (delta empty), write_text(p, v2) makes
\* read_text(p) return v2 while base still holds p with its content.
C4_WriteTextKeepsBase ==
    \A p \in UserPaths, v2 \in WriteValues :
        (delta = EmptyFs /\ FsIsFile(base, p)) =>
            LET r == WriteTextOp(delta, base, p, v2) IN
            /\ r.err = OK
            /\ ReadText(r.delta, r.base, p) = [err |-> OK, content |-> v2]
            /\ FsRead(r.base, p) = FsRead(base, p)

\* the part of C4 the code keeps: the overlay reads back what write_text wrote
C4_WriteTextReadsBack ==
    \A p \in UserPaths, v2 \in WriteValues :
        (delta = EmptyFs /\ FsIsFile(base, p)) =>
            LET r == WriteTextOp(delta, base, p, v2) IN
            /\ r.err = OK
            /\ ReadText(r.delta, r.base, p) = [err |-> OK, content |-> v2]

\* p is a file of base that delta neither holds nor marks
OnlyInBase(dl, bs, p) ==
    /\ FsIsFile(bs, p)
    /\ ~FsExists(dl, p)
    /\ LET ex == CheckExistsAndWhere(dl, bs, p) IN ex.exists /\ ex.where = 1

\* C5, first part: once rm_file of a file only in base has returned,
\* exists(p) is False and reads of p fail; a following write of c2 through
\* open(p, "w") is read back.
C5_DeleteThenRecreate ==
    \A p \in UserPaths :
        OnlyInBase(delta, base, p) =>
            LET r1 == RmFileOp(delta, base, p) IN
            r1.err = OK =>
            /\ ~Exists(r1.delta, r1.base, p)
            /\ ReadText(r1.delta, r1.base, p).err # OK
            /\ \A c2 \in WriteValues :
                  LET r2 == OpenWriteOp(r1.delta, r1.base, p, c2) IN
                  /\ r2.err = OK
                  /\ ReadText(r2.delta, r2.base, p) = [err |-> OK, content |-> c2]

\* C5, last part: once rm_file has removed a file that was only in base and
\* open(p, "w") has written it again, no later overlay read of it is served
\* by base.
C5_BaseContentStaysHidden ==
    \A p \in recreated :
        LET ex == CheckExistsAndWhere(delta, base, p) IN ~(ex.exists /\ ex.where = 1)

\* C5: deletion-then-recreate, and the deleted base content is not returned
\* by any later overlay read.
C5_DeletionThenRecreate == C5_DeleteThenRecreate /\ C5_BaseContentStaysHidden

\* C6: a ".deleted" marker in delta for p or for an ancestor of p makes
\* exists(p), isdir(p) and isfile(p) all False.
C6_DeletedMarkerHides ==
    \A p \in UserPaths :
        HasMarker(delta, p, DELETED) =>
            /\ ~Exists(delta, base, p)
            /\ ~IsDir(delta, base, p)
            /\ ~IsFile(delta, base, p)

C8_DirectoryReplacement ==
    (/\ last.op = "rmdir"
     /\ FsIsDir(base, last.path)
     /\ FsChildren(base, last.path) # {}) =>
        LET d == last.path
            r == MkdirOp(delta, base, d) IN
        /\ r.err = OK
        /\ IsDir(r.delta, r.base, d)
        /\ \A detail \in BOOLEAN :
              \A o \in Ls(r.delta, r.base, d, detail) :
                  o.err = OK => o.names \cap FsChildren(base, d) = {}

\* what C9 says ls(d) lists: base's names without those delta marks deleted,
\* and delta's names that are no markers
MergedNames(dl, bs, d) ==
    LET b == FsLs(bs, d).names
        t == FsLs(dl, d).names
    IN {n \in b : Plus(n, DELETED) \notin t} \cup {n \in t : ~IsMarker(n)}

\* C9: for a directory d of the overlay view, ls(d) is the merged listing.
C9_MergedListing ==
    \A d \in ListPaths :
        IsDir(delta, base, d) =>
            \A detail \in BOOLEAN :
                \A o \in Ls(delta, base, d, detail) :
                    o.err = OK /\ o.names = MergedNames(delta, base, d)

\* the ls half of C10: a listing that ls returns holds no marker name
C10_LsHidesMarkers ==
    \A d \in ListPaths, detail \in BOOLEAN :
        \A o \in Ls(delta, base, d, detail) :
            o.err = OK => \A n \in o.names : ~IsMarker(n)

\* the walk half of C10: a walk that returns holds no marker name
C10_WalkHidesMarkers ==
    \A maxdepth \in Depths :
        \A o \in Walk(delta, base, maxdepth) :
            o.err = OK => \A n \in WalkNames(o.out) : ~IsMarker(n)

\* C10: no result of ls or walk holds a name ending in ".deleted" or
\* ".replaced".
C10_MarkersNeverSurface == C10_LsHidesMarkers /\ C10_WalkHidesMarkers

\* C11: mkdir(d, exist_ok=True) called twice in a row succeeds both times
\* and isdir(d) is True after each call.  mkdir hands exist_ok on to delta's
\* mkdir only, which does not read it, so the call is MkdirOp; stated for
\* every d the first call succeeds on.
C11_MkdirIdempotent ==
    \A d \in UserPaths :
        LET r1 == MkdirOp(delta, base, d)
            r2 == MkdirOp(r1.delta, r1.base, d)
        IN r1.err = OK =>
               /\ IsDir(r1.delta, r1.base, d)
               /\ r2.err = OK
               /\ IsDir(r2.delta, r2.base, d)

\* the relative paths asked for below a mount
RelPaths == {Empty, Str1("n"), Str2("d", "n"), Str1("a"), Str2("q", "n")}

\* the first segment of a path is no mount key, and neither is the path
NoKeyMatches(keys, p) == p \notin keys /\ Split1(p)[1] \notin keys

\* C12: _get_filesystem returns (mount[k], k, rest) for the path k + "/" +
\* rest with k a mount key, (mount[k], k, "") for a path that is a mount key
\* k, and otherwise (mount["default"], "", path) with the whole path (the
\* table having a "default" entry).
C12_RoutingResolution ==
    /\ \A k \in DOMAIN file_systems, rest \in RelPaths :
           GetFilesystem(file_systems, Join(k, rest)) = Resolved(OK, k, k, rest)
    /\ \A k \in DOMAIN file_systems :
           GetFilesystem(file_systems, k) = Resolved(OK, k, k, Empty)
    /\ \A p \in ProbePaths :
           (DEFAULT \in DOMAIN file_systems /\ NoKeyMatches(DOMAIN file_systems, p))
               => GetFilesystem(file_systems, p) = Resolved(OK, DEFAULT, Empty, p)

\* writes through "a/n" and "q/n" have landed at n of mount a and at q/n of
\* the default mount
C12_Witness ==
    /\ DEFAULT \in DOMAIN file_systems
    /\ last.op = "open_w" /\ last.ok
    /\ FsIsFile(file_systems[Str1("a")], P1("n"))
    /\ FsIsFile(file_systems[DEFAULT], P2("q", "n"))
    /\ ~FsExists(file_systems[DEFAULT], P2("a", "n"))

\* C13: for every path whose first segment is no non-default mount key
\* ("default" and "default/n" among them), exists(p) hands the whole path to
\* the default mount: it returns what the default mount's exists(p) returns.
C13_DefaultGetsWholePath ==
    DEFAULT \in DOMAIN file_systems =>
        \A p \in ProbePaths :
            NoKeyMatches(DOMAIN file_systems \ {DEFAULT}, p) =>
                LET r == NestedExists(file_systems, p) IN
                /\ r.err = OK
                /\ r.calls = {Call(DEFAULT, "exists", p)}
                /\ r.value = FsExists(file_systems[DEFAULT], ToFsPath(p))

\* the files asked for below a mount
RelFiles == {Str1("n"), Str2("d", "n"), Str2("q", "n")}

\* C14: for every mount key k and relative path p, open(k + "/" + p, "w")
\* stores the content at path p of mount k (and raises what the mount's open
\* raises), open(k + "/" + p) reads what the mount's open(p) reads; a path
\* no mount key matches is written to and read from the default mount at the
\* same whole path.
C14_OpenThroughMount ==
    /\ \A k \in DOMAIN file_systems, p \in RelFiles, c \in WriteValues :
           LET w == FsWrite(file_systems[k], ToFsPath(p), c)
               r == NestedOpenWrite(file_systems, Join(k, p), c)
               rd == NestedOpenRead(r.fss, Join(k, p))
               now == NestedOpenRead(file_systems, Join(k, p))
           IN /\ r.err = w.err
              /\ r.fss = [file_systems EXCEPT ![k] = w.fs]
              /\ [err |-> rd.err, content |-> rd.value] = FsRead(r.fss[k], ToFsPath(p))
              /\ [err |-> now.err, content |-> now.value]
                     = FsRead(file_systems[k], ToFsPath(p))
              /\ r.err = OK => rd.value = c
    /\ \A p \in ProbePaths, c \in WriteValues :
           (DEFAULT \in DOMAIN file_systems /\ NoKeyMatches(DOMAIN file_systems, p)) =>
               LET w == FsWrite(file_systems[DEFAULT], ToFsPath(p), c)
                   r == NestedOpenWrite(file_systems, p, c)
                   rd == NestedOpenRead(r.fss, p)
               IN /\ r.err = w.err
                  /\ r.fss = [file_systems EXCEPT ![DEFAULT] = w.fs]
                  /\ [err |-> rd.err, content |-> rd.value]
                         = FsRead(r.fss[DEFAULT], ToFsPath(p))

\* a write through open("a/n", "w") has returned: mount a holds the content
\* at n, the default mount holds a file n of its own and no a/n
C14_Witness ==
    /\ DEFAULT \in DOMAIN file_systems
    /\ last = [op |-> "open_w", path |-> Str2("a", "n"), ok |-> TRUE]
    /\ FsRead(file_systems[Str1("a")], P1("n")).content \in WriteValues
    /\ FsIsFile(file_systems[DEFAULT], P1("n"))
    /\ file_systems[DEFAULT][P1("n")].content = <<>>
    /\ ~FsExists(file_systems[DEFAULT], P1("a"))

\* C15: every call of an operation on one path changes at most the backing
\* filesystem the path resolves to, and calls no other: all other mounts, the
\* default mount included, hold after the call what they held before.
C15_OnlyResolvedMountChanges ==
    \A op \in SinglePathOps, p \in ProbePaths :
        \A r \in NestedCalls(file_systems, op, p) :
            LET g == GetFilesystem(file_systems, p) IN
            /\ DOMAIN r.fss = DOMAIN file_systems
            /\ \A k \in DOMAIN file_systems :
                   (g.err # OK \/ k # g.mount) => r.fss[k] = file_systems[k]
            /\ \A c \in r.calls : g.err = OK /\ c.mount = g.mount

\* a removal through the nested filesystem has returned while mount a and the
\* default mount both hold entries
C15_Witness ==
    /\ DEFAULT \in DOMAIN file_systems
    /\ last.op \in {"rm_file", "rm_r", "rmdir"} /\ last.ok
    /\ last.path = Str2("a", "n")
    /\ ~FsExists(file_systems[Str1("a")], P1("n"))
    /\ FsExists(file_systems[DEFAULT], P1("n"))

\* C16: rmdir("") always fails with the nested filesystem's own "cannot
\* remove root" error (a ValueError), calls no backing filesystem and leaves
\* every mount as it was; and no rmdir("") is ever seen to have returned.
C16_RmdirRootFails ==
    /\ NestedRmdir(file_systems, Empty) = Raised(file_systems, "ValueError")
    /\ (last.op = "rmdir" /\ last.path = Empty) => ~last.ok

\* rmdir("") has raised while the default mount holds entries
C16_Witness ==
    /\ DEFAULT \in DOMAIN file_systems
    /\ last = [op |-> "rmdir", path |-> Empty, ok |-> FALSE]
    /\ FsChildren(file_systems[DEFAULT], Root) # {}

\* C17: rm("", recursive) and rm_file("") fail with an error the nested
\* filesystem raises itself: no call is made on a backing filesystem and no
\* mount changes.
C17_RootRemovalFails ==
    /\ \A recursive \in BOOLEAN, maxdepth \in NestedDepths :
           LET r == NestedRm(file_systems, Empty, recursive, maxdepth) IN
           r.err # OK /\ r.calls = {} /\ r.fss = file_systems
    /\ LET r == NestedRmFile(file_systems, Empty) IN
       r.err # OK /\ r.calls = {} /\ r.fss = file_systems

\* every outcome of the operation on the path is an error raised before any
\* backing filesystem is called
FailsUntouched(fss, op, p) ==
    \A r \in NestedCalls(fss, op, p) :
        r.err # OK /\ r.calls = {} /\ r.fss = fss

RootNames(fs) == {ToStr(q) : q \in FsChildren(fs, Root)}

\* C19: ls("") returns, with detail=True and with detail=False, one entry
\* per non-default mount key together with the entries of the default
\* mount's root listing; the key "default" is no entry.
C19_RootListing ==
    \A detail \in BOOLEAN :
        LET r == NestedLs(file_systems, Empty, detail) IN
        /\ r.err = OK
        /\ r.value = SetToBag(DOMAIN file_systems \ {DEFAULT})
                        (+) (IF DEFAULT \in DOMAIN file_systems
                             THEN SetToBag(RootNames(file_systems[DEFAULT]))
                             ELSE EmptyBag)

\* the directories listed below a mount
RelDirs == {Empty, Str1("n"), Str1("q")}

\* C20: for every mount key k and directory p of the mount, ls(k + "/" + p)
\* returns, for each entry the mount lists, the name k + "/" + entry, which
\* _get_filesystem maps back to mount k and to that entry.
C20_ListingRoundTrip ==
    \A k \in DOMAIN file_systems, p \in RelDirs, detail \in BOOLEAN :
        FsIsDir(file_systems[k], ToFsPath(p)) =>
            LET r == NestedLs(file_systems, Join(k, p), detail)
                listed == FsChildren(file_systems[k], ToFsPath(p))
            IN /\ r.err = OK
               /\ r.value = SetToBag({Join(k, ToStr(q)) : q \in listed})
               /\ \A q \in listed :
                      LET g == GetFilesystem(file_systems, Join(k, ToStr(q))) IN
                      g.mount = k /\ ToFsPath(g.nested_path) = q

\* isfile(p) returns True
HoldsFile(fss, p) == LET f == NestedIsfile(fss, p) IN f.err = OK /\ f.value

\* C21: cp_file(p1, p2) with p1 an existing file succeeds, for endpoints in
\* the same mount and in different mounts; afterwards p2 holds the bytes of
\* p1 and p1 holds what it held.
C21_CpFileCopies ==
    \A p1 \in ProbePaths, p2 \in ProbePaths :
        (HoldsFile(file_systems, p1) /\ p1 # p2) =>
            LET r == NestedCpFile(file_systems, p1, p2)
                before == NestedOpenRead(file_systems, p1)
            IN /\ r.err = OK
               /\ NestedOpenRead(r.fss, p2).value = before.value
               /\ NestedOpenRead(r.fss, p1) = before

\* C22: mv(p1, p2) with p1 an existing file succeeds, for endpoints in the
\* same mount and in different mounts; afterwards exists(p1) is False and p2
\* holds the bytes p1 held.
C22_MvMoves ==
    \A p1 \in ProbePaths, p2 \in ProbePaths :
        (HoldsFile(file_systems, p1) /\ p1 # p2) =>
            LET r == NestedMv(file_systems, p1, p2)
                before == NestedOpenRead(file_systems, p1)
            IN /\ r.err = OK
               /\ NestedExists(r.fss, p1).value = FALSE
               /\ NestedOpenRead(r.fss, p2).value = before.value

\* C23: the mount table and the fingerprint are fixed at construction: in
\* every state the keys of the mount table are those of the configuration
\* mapping, fsid is the fingerprint of that mapping, and the mapping is the
\* one the caller gave (its nested_permissions included); no call changes
\* the set of keys, fsid or the mapping.
C23_MountTableFixed ==
    /\ [](/\ DOMAIN file_systems = DOMAIN path_storage_configs
          /\ fsid = Hash(JsonDumps(path_storage_configs))
          /\ path_storage_configs \in CallerConfigs)
    /\ [][/\ DOMAIN file_systems' = DOMAIN file_systems
          /\ fsid' = fsid
          /\ path_storage_configs' = path_storage_configs]_vars

\* a recursive rm("") has emptied the default mount: the mount table still
\* has its three keys and the mapping its nested_permissions
C23_Witness ==
    /\ last = [op |-> "rm_r", path |-> Empty, ok |-> TRUE]
    /\ DOMAIN file_systems = {Str1("a"), Str1("b"), DEFAULT}
    /\ FsIsFile(file_systems[Str1("a")], P1("n"))
    /\ "nested_permissions" \in DOMAIN path_storage_configs[Str1("a")]
    /\ fsid = Hash(JsonDumps(path_storage_configs))

\* C24: saving content under a name that exists in the storage returns a
\* different name; afterwards both names exist and every file the storage
\* held, the one under the name asked for included, is as it was.
C24_SaveKeepsExisting ==
    \A name \in StorageNames, content \in StorageValues :
        StorageExists(filesystem, name) =>
            \A r \in StorageSave(filesystem, name, content) :
                /\ r.err = OK
                /\ r.name # name
                /\ StorageExists(r.fs, name)
                /\ StorageExists(r.fs, r.name)
                /\ FsRead(r.fs, <<r.name>>).content = content
                /\ \A q \in DOMAIN filesystem :
                       q \in DOMAIN r.fs /\ r.fs[q] = filesystem[q]

\* a save under an existing name has returned another name: both exist, with
\* different contents
C24_Witness ==
    /\ last.op = "save" /\ last.ok
    /\ last.asked = <<"t", ".txt">>
    /\ last.path # last.asked
    /\ FsRead(filesystem, <<last.asked>>).content = <<"c1">>
    /\ FsRead(filesystem, <<last.path>>).content = <<"c2">>

\* p resolves to a file of base only: the overlay view has it, base is the
\* layer that answers, and no deletion marker of p exists
ResolvesToBaseOnly(dl, bs, p) ==
    LET ex == CheckExistsAndWhere(dl, bs, p) IN
    /\ ex.exists /\ ex.where = 1
    /\ FsIsFile(bs, p)
    /\ ~FsExists(dl, Plus(p, DELETED))

\* C25 (first half): appending s to a path that resolves to base only succeeds
\* and yields the content of base followed by s, stored in delta, base
\* unchanged.
C25_AppendExtendsBase ==
    \A p \in UserPaths, s \in AppendValues :
        ResolvesToBaseOnly(delta, base, p) =>
            LET r == OpenAppendOp(delta, base, p, s) IN
            /\ r.err = OK
            /\ r.base = base
            /\ FsIsFile(r.delta, p)
            /\ r.delta[p].content = base[p].content \o s
            /\ ReadText(r.delta, r.base, p) =
                   [err |-> OK, content |-> base[p].content \o s]

\* C25 (second half): appending s to a path whose deletion marker exists
\* removes the marker and yields s alone.
C25_AppendAfterDeletion ==
    \A p \in UserPaths, s \in AppendValues :
        FsExists(delta, Plus(p, DELETED)) =>
            LET r == OpenAppendOp(delta, base, p, s) IN
            /\ r.err = OK
            /\ r.base = base
            /\ ~FsExists(r.delta, Plus(p, DELETED))
            /\ ReadText(r.delta, r.base, p) = [err |-> OK, content |-> s]

\* C25: overlay append extends the content of base in delta when the path
\* resolved to base only, and starts from nothing when the path had a
\* deletion marker, which is removed.
C25_OverlayAppend == C25_AppendExtendsBase /\ C25_AppendAfterDeletion

\* C26 (first half): opening a path for writing changes delta only.
C26_WriteKeepsBase ==
    \A p \in UserPaths, c \in WriteValues :
        OpenWriteOp(delta, base, p, c).base = base

\* C26 (second half): after a write through the overlay every proper ancestor
\* directory of the path exists in the overlay view and is a directory there.
C26_AncestorsVisible ==
    \A p \in UserPaths, c \in WriteValues :
        LET r == OpenWriteOp(delta, base, p, c) IN
        r.err = OK =>
            /\ FsIsFile(r.delta, p)
            /\ \A a \in Prefixes(p) \ {p, Root} :
                   /\ Exists(r.delta, r.base, a)
                   /\ IsDir(r.delta, r.base, a)

\* C26: a write through the overlay targets delta, leaves base unchanged, and
\* leaves every proper ancestor directory of the path existing in the overlay
\* view.
C26_WriteTargetsDelta == C26_WriteKeepsBase /\ C26_AncestorsVisible

\* d/x has been written while the deletion marker of d is there and base
\* holds d: d is a directory of the overlay view
C26_Witness ==
    /\ last.op = "open_w" /\ last.path = P2("d", "x")
    /\ FsExists(delta, Plus(P1("d"), DELETED))
    /\ FsIsDir(base, P1("d"))
    /\ FsIsFile(delta, P2("d", "x"))
    /\ Exists(delta, base, P1("d")) /\ IsDir(delta, base, P1("d"))

\* no marker of p or of a directory above it exists
NoMarkerApplies(dl, p) ==
    \A a \in Prefixes(p) :
        /\ ~FsExists(dl, Plus(a, DELETED))
        /\ ~FsExists(dl, Plus(a, REPLACED))

\* the errors a filesystem raises on reading a path it does not hold
AbsentErrors == {"FileNotFoundError", "NotADirectoryError"}

\* C27: a read takes delta's file when delta holds the path, whatever base
\* holds; base's when only base holds it and no marker applies; and when the
\* path does not exist in the overlay view the read goes to delta and fails as
\* absent, returning no data of base.
C27_ReadLayerSelection ==
    \A p \in UserPaths :
        LET out == ReadText(delta, base, p) IN
        /\ FsExists(delta, p) => out = FsRead(delta, p)
        /\ (/\ ~FsExists(delta, p)
            /\ FsExists(base, p)
            /\ NoMarkerApplies(delta, p)) => out = FsRead(base, p)
        /\ ~Exists(delta, base, p) =>
               /\ out = FsRead(delta, p)
               /\ out.err \in AbsentErrors
               /\ out.content = <<>>

\* delta and base hold different contents for n, and the read gives delta's
C27_Witness ==
    /\ last.op = "open_w" /\ last.path = P1("n")
    /\ FsRead(base, P1("n")) = [err |-> OK, content |-> BaseValue]
    /\ FsRead(delta, P1("n")) = [err |-> OK, content |-> <<"w">>]
    /\ ReadText(delta, base, P1("n")).content = <<"w">>

\* p is a file of the overlay view, or a directory of it under which nothing
\* exists in the view
FileOrEmptyDir(dl, bs, p) ==
    \/ IsFile(dl, bs, p)
    \/ /\ IsDir(dl, bs, p)
       /\ \A q \in UserPaths : IsUnder(q, p) => ~Exists(dl, bs, q)

\* C28: rm(p, recursive=False) of a file or an empty directory of the overlay
\* view succeeds; afterwards p does not exist, no p.replaced is left, and
\* delta holds p.deleted exactly when base has an entry named p.
C28_RmRemovesFileOrEmptyDir ==
    \A p \in UserPaths :
        FileOrEmptyDir(delta, base, p) =>
            \A r \in RmOp(delta, base, p, FALSE, None) :
                /\ r.err = OK
                /\ ~Exists(r.delta, r.base, p)
                /\ ~FsExists(r.delta, Plus(p, REPLACED))
                /\ FsExists(r.delta, Plus(p, DELETED)) <=> FsExists(base, p)

\* p is a directory of the overlay view with something under it in the view
NonEmptyDir(dl, bs, p) ==
    /\ IsDir(dl, bs, p)
    /\ \E q \in UserPaths : IsUnder(q, p) /\ Exists(dl, bs, q)

\* C29: rm(p, recursive=False) fails and leaves delta and base as they were
\* when p does not exist in the overlay view (a path hidden by a marker
\* included) and when p is a directory whose merged listing is not empty.
C29_RmRefusesAbsentOrNonEmpty ==
    \A p \in UserPaths :
        (~Exists(delta, base, p) \/ NonEmptyDir(delta, base, p)) =>
            \A r \in RmOp(delta, base, p, FALSE, None) :
                /\ r.err # OK
                /\ r.delta = delta
                /\ r.base = base

\* after a failed call: n is hidden by its marker, d is a directory of base
\* that holds d/x, and rm refuses both without a change
C29_Witness ==
    /\ last.op = "failed"
    /\ FsExists(base, P1("n")) /\ FsExists(delta, Plus(P1("n"), DELETED))
    /\ ~Exists(delta, base, P1("n"))
    /\ NonEmptyDir(delta, base, P1("d")) /\ LeadingFs(delta, base, P1("d")) = 1
    /\ \A r \in RmOp(delta, base, P1("n"), FALSE, None) :
           r.err = "ValueError" /\ r.delta = delta /\ r.base = base
    /\ \A r \in RmOp(delta, base, P1("d"), FALSE, None) :
           r.err # OK /\ r.delta = delta /\ r.base = base

\* C30: rm with a maxdepth other than None raises NotImplementedError before
\* anything else: no marker is written, nothing is removed from delta and base
\* is unchanged, for every path and both values of recursive.
C30_MaxdepthNotImplemented ==
    \A p \in UserPaths, recursive \in BOOLEAN, maxdepth \in Depths \ {None} :
        RmOp(delta, base, p, recursive, maxdepth) =
            {St(delta, base, "NotImplementedError")}

\* after a failed call: n is in delta and in base, where a recursive rm
\* without maxdepth would remove it, and rm with maxdepth changes nothing
C30_Witness ==
    /\ last.op = "failed"
    /\ FsIsFile(delta, P1("n")) /\ FsIsFile(base, P1("n"))
    /\ \E r \in RmOp(delta, base, P1("n"), TRUE, None) :
           r.err = OK /\ r.delta # delta
    /\ \A r \in RmOp(delta, base, P1("n"), TRUE, <<1>>) :
           r.err = "NotImplementedError" /\ r.delta = delta /\ r.base = base

\* C31 (first half): rmdir of a path base does not hold as a directory raises
\* and changes neither layer.
C31_RmdirNeedsBaseDir ==
    \A d \in UserPaths :
        ~FsIsDir(base, d) => RmdirOp(delta, base, d) = St(delta, base, "ValueError")

\* C31 (second half): rmdir of a directory of base leaves the marker d.deleted
\* in delta, removes delta's own copy of d, and afterwards neither d nor any
\* path under d exists in the overlay view.
C31_RmdirHidesBaseDir ==
    \A d \in UserPaths :
        FsIsDir(base, d) =>
            LET r == RmdirOp(delta, base, d) IN
            /\ r.err = OK
            /\ r.base = base
            /\ FsIsDir(r.delta, Plus(d, DELETED))
            /\ ~FsExists(r.delta, d)
            /\ \A q \in UserPaths :
                   (q = d \/ IsUnder(q, d)) => ~Exists(r.delta, r.base, q)

\* C31: rmdir is legal only on a directory of base, which it hides with a
\* marker, removing delta's copy; otherwise it raises and changes nothing.
C31_RmdirLegalOnBaseDir == C31_RmdirNeedsBaseDir /\ C31_RmdirHidesBaseDir

\* C32: mkdir and makedirs(exist_ok=False) of a path that exists in the
\* overlay view raise an already-exists error and leave delta and base as they
\* were; makedirs(exist_ok=True) of such a path succeeds and leaves isdir of it
\* as it was.
C32_MkdirOnExisting ==
    \A d \in UserPaths :
        Exists(delta, base, d) =>
            /\ MkdirOp(delta, base, d) = St(delta, base, "FileExistsError")
            /\ MakedirsOp(delta, base, d, FALSE) = St(delta, base, "FileExistsError")
            /\ LET r == MakedirsOp(delta, base, d, TRUE) IN
               /\ r.err = OK
               /\ r.base = base
               /\ IsDir(r.delta, r.base, d) = IsDir(delta, base, d)

\* delta can take a file at p: p is not a directory of delta and no directory
\* above p is a file of delta
CanHoldFile(dl, p) ==
    /\ ~FsIsDir(dl, p)
    /\ \A a \in Prefixes(p) \ {p} : ~FsIsFile(dl, a)

\* C33: cp_file(p1, p2) of an existing file p1 writes p2 into delta, whichever
\* layer p1 resolved to: it succeeds whenever delta can take a file at p2, and
\* after it p2 is a file of delta, p2 exists, reads of p2 give what reads of
\* p1 gave before, reads of p1 are unchanged and base is unchanged.
C33_CpFileIntoDelta ==
    \A p1 \in UserPaths, p2 \in UserPaths :
        (p1 # p2 /\ IsFile(delta, base, p1)) =>
            LET r == CpFileOp(delta, base, p1, p2) IN
            /\ r.base = base
            /\ CanHoldFile(delta, p2) => r.err = OK
            /\ r.err = OK =>
                   /\ FsIsFile(r.delta, p2)
                   /\ Exists(r.delta, r.base, p2)
                   /\ ReadText(r.delta, r.base, p2) = ReadText(delta, base, p1)
                   /\ ReadText(r.delta, r.base, p1) = ReadText(delta, base, p1)

\* n is a file of base only and d/x a file of delta: copying n to d/x and d/x
\* to n both write delta, with the content of the source, and leave base
C33_Witness ==
    /\ last.op = "open_w" /\ last.path = P2("d", "x")
    /\ LeadingFs(delta, base, P1("n")) = 1 /\ IsFile(delta, base, P1("n"))
    /\ LeadingFs(delta, base, P2("d", "x")) = 0
    /\ LET r == CpFileOp(delta, base, P1("n"), P2("d", "x")) IN
       /\ r.err = OK /\ r.base = base
       /\ r.delta[P2("d", "x")].content = BaseValue
    /\ LET r == CpFileOp(delta, base, P2("d", "x"), P1("n")) IN
       /\ r.err = OK /\ r.base = base
       /\ ReadText(r.delta, r.base, P1("n")).content = <<"w">>

\* C34: after mv(p1, p2) of an existing file p1 succeeds, p1 does not exist
\* in the overlay view, reads of p2 give the content p1 had, and base is
\* unchanged: for p1 only in base, only in delta, and in delta over a file of
\* base of the same name.
C34_MvMovesFile ==
    \A p1 \in UserPaths, p2 \in UserPaths :
        (p1 # p2 /\ IsFile(delta, base, p1) /\ ~IsDir(delta, base, p2)) =>
            LET r == MvOp(delta, base, p1, p2) IN
            r.err = OK =>
                /\ r.base = base
                /\ ~Exists(r.delta, r.base, p1)
                /\ ReadText(r.delta, r.base, p2) = ReadText(delta, base, p1)

\* the maxdepth values asked about
ProbeDepths == {None, <<1>>, <<2>>}

\* C35: rm hands the backing filesystem maxdepth minus the number of segments
\* of the consumed mount key (maxdepth - 1 below a non-default mount key), and
\* maxdepth unchanged for a path routed to the default mount or when maxdepth
\* is None; the depth handed over is never negative.
C35_RmDepthAdjusted ==
    \A p \in ProbePaths \ {Empty}, m \in ProbeDepths :
        LET g == GetFilesystem(file_systems, p) IN
        g.err = OK =>
            LET d == RmDepth(g, m) IN
            /\ m = None => d = None
            /\ (m # None /\ g.mount # DEFAULT) =>
                   /\ d = <<m[1] - SplitLen(g.mount)>>
                   /\ d = <<m[1] - 1>>
            /\ (m # None /\ g.mount = DEFAULT) => d = m
            /\ d # None => d[1] >= 0

\* the directories of the overlay view: the root and the paths isdir holds of
ViewDirs(dl, bs) == {Root} \cup {k \in UserPaths : IsDir(dl, bs, k)}

\* C36 (first half): walk ends without an error and yields one entry per
\* directory of the overlay view.
C36_WalkYieldsViewDirs ==
    \A r \in Walk(delta, base, None) :
        /\ r.err = OK
        /\ DOMAIN r.out = ViewDirs(delta, base)

\* C36 (second half): with a directory marker d.deleted in delta, walk yields
\* neither d nor a directory under d, and yields every other directory of
\* base.
C36_DeletedMarkerPrunes ==
    \A d \in UserPaths :
        FsIsDir(delta, Plus(d, DELETED)) =>
            \A r \in Walk(delta, base, None) :
                /\ r.err = OK
                /\ \A k \in DOMAIN r.out : k # d /\ ~IsUnder(k, d)
                /\ \A k \in DOMAIN base :
                       (FsIsDir(base, k) /\ k # d /\ ~IsUnder(k, d))
                           => k \in DOMAIN r.out

\* C36: walk yields one entry per directory of the overlay view; a directory
\* marker d.deleted removes d and the directories under it, and no other.
C36_WalkFollowsMarkers == C36_WalkYieldsViewDirs /\ C36_DeletedMarkerPrunes

C38_LsAgreesWithExists ==
    \A d \in ListPaths :
        IsDir(delta, base, d) =>
            \A detail \in BOOLEAN :
                \A o \in Ls(delta, base, d, detail) :
                    /\ o.err = OK
                    /\ \A q \in UserPaths :
                           Parent(q) = d /\ Len(q) = Len(d) + 1 =>
                               (q \in o.names <=> Exists(delta, base, q))

\* C38 (second half): ls of a directory that a marker has deleted from the
\* overlay view returns none of base's entries.
C38_LsOfDeletedDir ==
    \A d \in ListPaths \ {Root} :
        (FsIsDir(base, d) /\ ~Exists(delta, base, d)) =>
            \A detail \in BOOLEAN :
                \A o \in Ls(delta, base, d, detail) :
                    o.err # OK \/ o.names \cap FsChildren(base, d) = {}

\* C38: listing agrees with existence, and a directory deleted by a marker
\* does not list base's entries.
C38_ListingAgreesWithExistence == C38_LsAgreesWithExists /\ C38_LsOfDeletedDir

\* the removals of a directory: rmdir(d) and rm(d, recursive=True)
DirRemovals(dl, bs, d) == {RmdirOp(dl, bs, d)} \cup RmOp(dl, bs, d, TRUE, None)

\* later operations on or below d that do not write d/x: open(d/f, "w"),
\* touch(d/f), mkdir(d), makedirs(d)
LaterOps(dl, bs, d) ==
    { OpenWriteOp(dl, bs, Append(d, Seg("f")), <<"w">>),
      TouchOp(dl, bs, Append(d, Seg("f"))),
      MkdirOp(dl, bs, d),
      MakedirsOp(dl, bs, d, TRUE),
      MakedirsOp(dl, bs, d, FALSE) }

\* C39: once rmdir(d) or rm(d, recursive=True) has removed a directory d of
\* base that contains x, a later operation that does not write d/x leaves
\* exists(d/x) False and x unreadable.
C39_RemovedStaysHidden ==
    \A d \in UserPaths, x \in UserPaths :
        (IsUnder(x, d) /\ FsIsDir(base, d) /\ FsExists(base, x)) =>
            \A r1 \in DirRemovals(delta, base, d) :
                (r1.err = OK /\ ~Exists(r1.delta, r1.base, x)) =>
                    \A r2 \in LaterOps(r1.delta, r1.base, d) :
                        /\ ~Exists(r2.delta, r2.base, x)
                        /\ ReadText(r2.delta, r2.base, x).err # OK


====
